---------------------------- MODULE Spec2Model ----------------------------
(***************************************************************************)
(* A model of sacc's code generator: the architecture independent IR of    *)
(* generator/high (Register, LValue, RValue, BinaryOperator, Function,     *)
(* RegisterAllocator), the x86_64 lowering of generator/low/x86_64.rs      *)
(* (gen_function) and the backend dispatch of generator/low/mod.rs; and of *)
(* its front end: lex (lexer/mod.rs) and phase2 (preprocessor/phase2.rs).  *)
(*                                                                         *)
(* Specifications:                                                         *)
(*   SpecAlloc    a fresh RegisterAllocator and its alloc() calls          *)
(*   SpecTwoArgs  BinaryOperator::to_two_args on every operator of a       *)
(*                bounded operand universe                                 *)
(*   SpecOffset   Function::compute_ins_offset on bounded (len, index,     *)
(*                offset) triples, machine words WordBits wide             *)
(*   Spec         gen_function, instruction by instruction, called twice   *)
(*                on every function of a bounded set                       *)
(*   SpecDispatch low::do_codegen on every Backend of a bounded set        *)
(*   SpecLex      lex, token by token, on every bounded stream of kinds    *)
(*   SpecPhase2   phase2, token by token, on every bounded token vector    *)
(***************************************************************************)
EXTENDS Integers, Sequences, FiniteSets, TLC

VARIABLES
    \* RegisterAllocator (generator/high/mod.rs:190)
    allocator,      \* the u16 counter, field .0
    alloc_ret,      \* the Register id returned by the last alloc(), 0 before any
    alloc_prev,     \* the Register id returned by the call before that, 0 if none
    alloc_calls,    \* number of alloc() calls that returned
    alloc_state,    \* "idle" | "ready" | "panicked"
    \* BinaryOperator::to_two_args
    bop,            \* the BinaryOperator the call is made on
    two_args,       \* Pending or the Option returned
    \* Function::compute_ins_offset
    co_len,         \* self.instructions.len()
    co_index,       \* index: usize
    co_offset,      \* offset: isize
    co_result,      \* Pending or the outcome of the call
    \* gen_function (generator/low/x86_64.rs:65)
    func,           \* func.instructions, the IR being lowered
    pc,             \* "idle" | "pass1" | "pass2" | "done"
    i,              \* index of the instruction the current loop is at (from 0)
    registers,      \* RegisterFreq: virtual Register -> number of uses
    labels,         \* jump destination index -> CodeLabel
    phys_regs64,    \* virtual Register -> AsmRegister64
    phys_regs32,    \* virtual Register -> AsmRegister32
    ass,            \* the CodeAssembler
    result,         \* Pending or what the call of gen_function ended with
    first_result,   \* Idle, or the result of the previous call on the same IR
    \* low::do_codegen (generator/low/mod.rs:22)
    backend,        \* the Backend passed in
    dispatch_pc,    \* "idle" | "called" | "done"
    engine,         \* "none", or the engine whose do_codegen was called
    engine_result,  \* Pending or what that engine returned
    dispatch_result, \* Pending or what the call of do_codegen ended with
    \* Session (diagnostic/session.rs)
    session,        \* the handler's flags and the name of the source file
    emitted,        \* the diagnostics emitted so far
    \* lex (lexer/mod.rs:13)
    lexer,          \* the kinds that lexer.next() yields, in order
    lex_pc,         \* "idle" | "loop" | "done"
    lex_pos,        \* how many tokens the lexer has yielded
    lex_index,      \* index: the byte offset of the next token
    had_error,
    multi_comment_start, \* Option<PToken>: the open block comment's start
    tokens,         \* the Vec<PToken> being built
    lex_result,     \* Pending or the LexResult returned
    \* phase2 (preprocessor/phase2.rs:23)
    p2_tokens,      \* tokens: Vec<PToken>, the argument
    p2_pc,          \* "idle" | "loop" | "done"
    p2_pos,         \* how many tokens the for loop has taken
    new_tokens,
    backslash,      \* Option<PToken>: the backslash waiting for its newline
    has_error,
    p2_result       \* Pending or the Result returned

allocVars == <<allocator, alloc_ret, alloc_prev, alloc_calls, alloc_state>>
twoArgsVars == <<bop, two_args>>
offsetVars == <<co_len, co_index, co_offset, co_result>>
lowerVars == <<func, pc, i, registers, labels, phys_regs64, phys_regs32, ass,
               result, first_result>>
dispatchVars == <<backend, dispatch_pc, engine, engine_result, dispatch_result>>
lexVars == <<lexer, lex_pc, lex_pos, lex_index, had_error, multi_comment_start,
             tokens, lex_result>>
phase2Vars == <<p2_tokens, p2_pc, p2_pos, new_tokens, backslash, has_error,
                p2_result>>

-----------------------------------------------------------------------------
(* Bounds of the model *)

\* Number of virtual registers the front end hands out in the modelled inputs.
NumRegs == 4
\* Longest modelled function (instructions), beside the named programs.
MaxLen == 2
MaxTokens == 5
\* Width, in bits, the machine word (usize, isize, i64) is modelled with.
WordBits == 4
\* Width, in bits, a double word (i32, u32) is modelled with.
DwordBits == 3

(* Program constants *)

\* u16::MAX, the largest value of RegisterAllocator's counter.
U16Max == 65535

-----------------------------------------------------------------------------
(* IR model: generator/high/mod.rs *)

Registers == 1..NumRegs

Reg(r) == [k |-> "Reg", n |-> r]
DerefReg(r) == [k |-> "DerefReg", n |-> r]
DerefAddr(a) == [k |-> "DerefAddr", n |-> a]

Writeable(lv) == [k |-> "Writeable", lv |-> lv]
Literal(n) == [k |-> "Literal", n |-> n]

Signed(bits) == <<"Signed", bits>>
Unsigned(bits) == <<"Unsigned", bits>>
Floating(size) == <<"Floating", size>>
Pointer == <<"Pointer">>

BinaryOperator(a, b, dst, value) == [a |-> a, b |-> b, dst |-> dst, value |-> value]

\* Values of variables that hold no result (yet).
Pending == [k |-> "pending"]
Idle == [k |-> "idle"]

None == [some |-> FALSE]
Some(v) == [some |-> TRUE, v |-> v]

-----------------------------------------------------------------------------
(* RegisterAllocator *)

\* u16::checked_add(1)
CheckedAdd1(c) == IF c + 1 > U16Max THEN None ELSE Some(c + 1)

\* A plausible slip: the counter is handed out before it is advanced.
AllocPostIncrement(c) ==
    LET r == CheckedAdd1(c) IN
    IF ~r.some THEN [panic |-> TRUE, counter |-> c, reg |-> 0]
    ELSE [panic |-> FALSE, counter |-> r.v, reg |-> c]

\* A plausible slip: saturating_add in place of checked_add.
AllocSaturating(c) ==
    LET n == IF c + 1 > U16Max THEN U16Max ELSE c + 1 IN
    [panic |-> FALSE, counter |-> n, reg |-> n]

\* RegisterAllocator::alloc on counter value c: the new counter and the
\* Register returned, or a panic (expect on None, unwrap of NonZeroU16::new(0)).
alloc(c) ==
    LET r == CheckedAdd1(c) IN
    IF ~r.some THEN [panic |-> TRUE, counter |-> c, reg |-> 0]
    ELSE IF r.v = 0 THEN [panic |-> TRUE, counter |-> r.v, reg |-> 0]
    ELSE [panic |-> FALSE, counter |-> r.v, reg |-> r.v]

\* RegisterAllocator::new
InitAlloc ==
    /\ allocator = 0
    /\ alloc_ret = 0
    /\ alloc_prev = 0
    /\ alloc_calls = 0
    /\ alloc_state = "ready"

IdleAlloc ==
    /\ allocator = 0
    /\ alloc_ret = 0
    /\ alloc_prev = 0
    /\ alloc_calls = 0
    /\ alloc_state = "idle"

\* One call of alloc() that returns a Register.
AllocOk ==
    /\ alloc_state = "ready"
    /\ ~alloc(allocator).panic
    /\ allocator' = alloc(allocator).counter
    /\ alloc_ret' = alloc(allocator).reg
    /\ alloc_prev' = alloc_ret
    /\ alloc_calls' = alloc_calls + 1
    /\ UNCHANGED alloc_state

\* One call of alloc() that panics: the allocator is lost with the unwinding.
AllocPanic ==
    /\ alloc_state = "ready"
    /\ alloc(allocator).panic
    /\ allocator' = alloc(allocator).counter
    /\ alloc_state' = "panicked"
    /\ UNCHANGED <<alloc_ret, alloc_prev, alloc_calls>>

-----------------------------------------------------------------------------
(* BinaryOperator::to_two_args *)

\* A plausible slip: the operand that equals dst is returned as the other one.
to_two_args_keep_same(p) ==
    IF p.a.k = "Writeable" /\ p.dst = p.a.lv THEN Some(<<p.a.lv, p.a>>)
    ELSE IF p.b.k = "Writeable" /\ p.dst = p.b.lv THEN Some(<<p.b.lv, p.b>>)
    ELSE None

to_two_args(p) ==
    IF p.a.k = "Writeable" /\ p.dst = p.a.lv THEN Some(<<p.a.lv, p.b>>)
    ELSE IF p.b.k = "Writeable" /\ p.dst = p.b.lv THEN Some(<<p.b.lv, p.a>>)
    ELSE None

\* The operand universe of SpecTwoArgs.
LValues2 == {Reg(r) : r \in 1..2} \cup {DerefReg(r) : r \in 1..2}
                \cup {DerefAddr(a) : a \in 1..2}
RValues2 == {Writeable(lv) : lv \in LValues2} \cup {Literal(n) : n \in 1..2}
BinaryOperators2 ==
    {BinaryOperator(a, b, dst, Signed("B32")) :
        a \in RValues2, b \in RValues2, dst \in LValues2}

InitTwoArgs ==
    /\ bop \in BinaryOperators2
    /\ two_args = Pending

IdleTwoArgs ==
    /\ bop = Idle
    /\ two_args = Idle

ToTwoArgs ==
    /\ two_args = Pending
    /\ two_args' = to_two_args(bop)
    /\ UNCHANGED bop

-----------------------------------------------------------------------------
(* Function::compute_ins_offset *)

UsizeMax == 2 ^ WordBits - 1
IsizeMax == 2 ^ (WordBits - 1) - 1
IsizeMin == -(2 ^ (WordBits - 1))

\* `index as isize`: the two's complement reinterpretation of a usize.
AsIsize(u) == IF u > IsizeMax THEN u - 2 ^ WordBits ELSE u

\* Wrapping of an out-of-range isize sum (overflow checks off).
WrapIsize(s) == AsIsize(s % (2 ^ WordBits))

Ok(u) == [k |-> "Ok", u |-> u]
Err == [k |-> "Err"]
Panic(msg) == [k |-> "Panic", msg |-> msg]

\* isize -> usize try_into().expect(..), then the range test against len.
OffsetFromSum(len, s) ==
    IF s < 0 THEN Panic("BUG: internal offset out of range")
    ELSE IF s >= len THEN Err
    ELSE Ok(s)

\* A plausible slip: the range test lets the one-past-the-end index through.
compute_ins_offset_off_by_one(len, index, offset) ==
    LET s == offset + AsIsize(index) IN
    IF s < 0 THEN {Panic("BUG: internal offset out of range")}
    ELSE IF s > len THEN {Err}
    ELSE {Ok(s)}

\* The outcomes of compute_ins_offset(index, offset) on a function of len
\* instructions. `offset + index as isize` overflows isize for some inputs:
\* a build with overflow checks panics there, one without wraps.
compute_ins_offset(len, index, offset) ==
    LET s == offset + AsIsize(index) IN
    IF s < IsizeMin \/ s > IsizeMax
    THEN {Panic("attempt to add with overflow"), OffsetFromSum(len, WrapIsize(s))}
    ELSE {OffsetFromSum(len, s)}

InitOffset ==
    /\ co_len \in 0..(MaxLen + 1)
    /\ co_index \in 0..UsizeMax
    /\ co_offset \in IsizeMin..IsizeMax
    /\ co_result = Pending

IdleOffset ==
    /\ co_len = 0
    /\ co_index = 0
    /\ co_offset = 0
    /\ co_result = Idle

ComputeInsOffset ==
    /\ co_result = Pending
    /\ co_result' \in compute_ins_offset(co_len, co_index, co_offset)
    /\ UNCHANGED <<co_len, co_index, co_offset>>

-----------------------------------------------------------------------------
(* Instruction: generator/high/mod.rs *)

Move(src, dst, value) == [op |-> "Move", src |-> src, dst |-> dst, value |-> value]
LoadParameter(n, dst) == [op |-> "LoadParameter", n |-> n, dst |-> dst]
Add(p) == [op |-> "Add", p |-> p]
Subtract(p) == [op |-> "Subtract", p |-> p]
Multiply(p) == [op |-> "Multiply", p |-> p]
Divide(p) == [op |-> "Divide", p |-> p]
Call(function, return_value) ==
    [op |-> "Call", function |-> function, return_value |-> return_value]
Return(value) == [op |-> "Return", value |-> value]
Jump(offset) == [op |-> "Jump", offset |-> offset]
ConditionalJump(offset, value, condition) ==
    [op |-> "ConditionalJump", offset |-> offset, value |-> value,
     condition |-> condition]

S32 == Signed("B32")

\* The program of tests::basic (x86_64.rs:305-352); r1, r2 are the first two
\* Registers of a fresh RegisterAllocator.
TestBasic ==
    << Move(Literal(1), Reg(1), S32),
       Add(BinaryOperator(Literal(2), Writeable(Reg(1)), Reg(1), S32)),
       Multiply(BinaryOperator(Writeable(Reg(1)), Literal(2), Reg(1), S32)),
       Move(Literal(2), Reg(2), S32),
       Divide(BinaryOperator(Writeable(Reg(1)), Writeable(Reg(2)), Reg(2), S32)),
       Multiply(BinaryOperator(Writeable(Reg(2)), Literal(5), Reg(2), S32)) >>

\* The first three instructions of tests::basic.
MoveAddMultiply == SubSeq(TestBasic, 1, 3)

\* The instructions the modelled functions are built from.
MoveInstructions ==
    {Move(Literal(1), Reg(r), S32) : r \in Registers}
    \cup { Move(Writeable(Reg(1)), Reg(2), S32),
           Move(Writeable(Reg(3)), Reg(NumRegs), S32),
           Move(Literal(1), DerefReg(1), S32),
           Move(Writeable(DerefAddr(1)), Reg(1), S32) }

ArithmeticInstructions ==
    { Add(BinaryOperator(Literal(2), Writeable(Reg(1)), Reg(1), S32)),
      Add(BinaryOperator(Writeable(Reg(1)), Writeable(Reg(2)), Reg(3), S32)),
      Subtract(BinaryOperator(Writeable(Reg(1)), Literal(1), Reg(1), S32)),
      Subtract(BinaryOperator(Writeable(Reg(2)), Writeable(Reg(1)), Reg(2), S32)),
      Multiply(BinaryOperator(Writeable(Reg(1)), Literal(2), Reg(1), S32)),
      Multiply(BinaryOperator(Writeable(Reg(1)), Literal(2), Reg(1),
                              Unsigned("B64"))),
      Multiply(BinaryOperator(Writeable(Reg(1)), Writeable(Reg(2)), Reg(2), S32)),
      Multiply(BinaryOperator(Writeable(Reg(1)), Writeable(Reg(2)), Reg(2),
                              Floating("F32"))),
      Divide(BinaryOperator(Writeable(Reg(1)), Writeable(Reg(2)), Reg(2), S32)),
      Divide(BinaryOperator(Writeable(Reg(1)), Literal(2), Reg(1), S32)),
      Divide(BinaryOperator(Writeable(Reg(1)), Writeable(Reg(2)), Reg(3), S32)),
      Divide(BinaryOperator(Writeable(DerefReg(1)), Literal(2), DerefReg(1), S32)) }

\* Arithmetic by the literals at the edges of the signed and of the unsigned
\* dword: the largest positive one, the first with the top bit set, the
\* largest of a dword, and one that is wider than a dword.
LiteralInstructions ==
    { Subtract(BinaryOperator(Writeable(Reg(1)), Literal(2 ^ (DwordBits - 1) - 1),
                              Reg(1), S32)),
      Add(BinaryOperator(Literal(2 ^ (DwordBits - 1)), Writeable(Reg(1)), Reg(1),
                         S32)),
      Subtract(BinaryOperator(Writeable(Reg(1)), Literal(2 ^ DwordBits + 1),
                              Reg(1), S32)),
      Multiply(BinaryOperator(Writeable(Reg(1)), Literal(2 ^ DwordBits - 1),
                              Reg(1), S32)),
      Multiply(BinaryOperator(Writeable(Reg(1)), Literal(2 ^ DwordBits + 1),
                              Reg(1), Unsigned("B32"))) }

ControlInstructions ==
    { LoadParameter(0, NumRegs),
      Call(0, Some(Reg(1))), Call(0, None),
      Return(Writeable(Reg(1))),
      Jump(-1), Jump(1) }
    \cup {ConditionalJump(o, Reg(1), "NonZero") : o \in -1..1}

Instructions ==
    MoveInstructions \cup ArithmeticInstructions \cup LiteralInstructions
        \cup ControlInstructions

\* Every function of at most MaxLen instructions, and the named programs.
Functions ==
    UNION {[1..n -> Instructions] : n \in 0..MaxLen} \cup {TestBasic, MoveAddMultiply}

-----------------------------------------------------------------------------
(* iced_x86::code_asm::CodeAssembler, as far as gen_function uses it *)

\* A CodeLabel; instruction_index is -1 until set_label gives it one.
CodeLabel(id) == [id |-> id, instruction_index |-> -1]

\* CodeAssembler::new(64)
NewAssembler == [instructions |-> <<>>, current_label |-> 0, label_id |-> 1]

\* create_label: the assembler after the call, and the label.
create_label(a) ==
    [ass |-> [a EXCEPT !.label_id = @ + 1], label |-> CodeLabel(a.label_id)]

\* set_label(&mut label): an IcedError, or the assembler and the label after it.
set_label(a, label) ==
    IF label.instruction_index # -1
    THEN [k |-> "Err", msg |-> "Labels cannot be re-used and can only be set once."]
    ELSE IF a.current_label # 0
    THEN [k |-> "Err", msg |-> "Only one label per instruction is allowed"]
    ELSE [k |-> "Ok",
          ass |-> [a EXCEPT !.current_label = label.id],
          label |-> [label EXCEPT !.instruction_index = Len(a.instructions)]]

\* Operands of an assembled instruction.
R64(name) == [k |-> "r64", reg |-> name]
R32(name) == [k |-> "r32", reg |-> name]
Imm(n) == [k |-> "imm", n |-> n]
LabelRef(id) == [k |-> "label", id |-> id]
MemLabel(id) == [k |-> "mem", id |-> id]
Bytes(bs) == [k |-> "bytes", bytes |-> bs]
NoOperand == [k |-> "none"]

\* add_instruction: the pending label, if any, is bound to this instruction.
add_instruction(a, mnemonic, op0, op1) ==
    [a EXCEPT !.instructions =
                  Append(@, [mnemonic |-> mnemonic, op0 |-> op0, op1 |-> op1,
                             label |-> a.current_label]),
              !.current_label = 0]

\* Casts of a literal (usize) at the widths of the model.
as_i64(lit) == AsIsize(lit % (2 ^ WordBits))
as_i32_low_bits(lit) == lit % (2 ^ DwordBits)
as_i32(lit) ==
    LET low == lit % (2 ^ DwordBits) IN
    IF low >= 2 ^ (DwordBits - 1) THEN low - 2 ^ DwordBits ELSE low
as_u32(lit) == lit % (2 ^ DwordBits)

\* u32::to_ne_bytes on a little-endian host.
to_ne_bytes(v) == [n \in 1..4 |-> (v \div (256 ^ (n - 1))) % 256]

-----------------------------------------------------------------------------
(* gen_function: generator/low/x86_64.rs *)

\* *registers.entry(reg).or_default() += 1
add_reg(reg, regs) ==
    IF reg \in DOMAIN regs THEN [regs EXCEPT ![reg] = @ + 1] ELSE regs @@ (reg :> 1)

add_reg_storage(val, regs) ==
    IF val.k = "Reg" THEN add_reg(val.n, regs) ELSE regs

add_reg_rvalue_ignore(val, regs) == regs
add_reg_rvalue(val, regs) ==
    IF val.k = "Writeable" THEN add_reg_storage(val.lv, regs) ELSE regs

add_binary_op(p, regs) ==
    add_reg_storage(p.dst, add_reg_rvalue(p.b, add_reg_rvalue(p.a, regs)))

\* The registers map after the first loop's match arm for ins.
Pass1Registers(ins, regs) ==
    CASE ins.op = "Move" -> add_reg_storage(ins.dst, add_reg_rvalue(ins.src, regs))
      [] ins.op = "LoadParameter" -> regs
      [] ins.op \in {"Add", "Subtract", "Multiply", "Divide"} ->
            add_binary_op(ins.p, regs)
      [] ins.op = "Call" ->
            IF ins.return_value.some
            THEN add_reg_storage(ins.return_value.v, regs) ELSE regs
      [] ins.op = "Return" -> add_reg_rvalue(ins.value, regs)
      [] ins.op = "Jump" -> regs
      [] ins.op = "ConditionalJump" -> add_reg_storage(ins.value, regs)

VOLATILE_PHYSICAL_REGISTER_COUNT == 3
available_phys_regs64 == <<"rax", "r10", "r11">>
available_phys_regs32 == <<"eax", "r10d", "r11d">>

\* The orders in which registers.keys() can visit the keys: a std HashMap
\* (RandomState) iterates in an arbitrary order, the same one for both
\* traversals of the unmodified map.
KeyOrders(regs) ==
    LET keys == DOMAIN regs
        n == Cardinality(keys)
    IN {order \in [1..n -> keys] : \A x, y \in 1..n : order[x] = order[y] => x = y}

\* PhysRegs that gives every register the first of the available ones.
PhysRegsFirst(order, available) ==
    [reg \in {order[x] : x \in DOMAIN order} |-> available[1]]

\* registers.keys().enumerate().map(|(i, reg)| (*reg, available[i])).collect()
PhysRegs(order, available) ==
    [reg \in {order[x] : x \in DOMAIN order} |->
        available[CHOOSE x \in DOMAIN order : order[x] = reg]]

\* map_register64 / map_register32: indexing the HashMap panics on a missing key.
map_register64(reg) ==
    IF reg \in DOMAIN phys_regs64 THEN Some(R64(phys_regs64[reg])) ELSE None
map_register32(reg) ==
    IF reg \in DOMAIN phys_regs32 THEN Some(R32(phys_regs32[reg])) ELSE None

KeyPanic == Panic("HashMap index: key not found")
Unimplemented(what) == Panic("not implemented: " \o what)
AssOk(a) == [k |-> "Ok", ass |-> a]

\* ass.<mnemonic>(x, y)? with x (and y, when it is a register) looked up.
Emit2(a, mnemonic, x, y) ==
    IF ~x.some \/ ~y.some THEN KeyPanic
    ELSE AssOk(add_instruction(a, mnemonic, x.v, y.v))

\* Move { src, dst, value }
LowerMove(a, ins) ==
    IF ins.dst.k = "Reg" /\ ins.src.k = "Writeable" /\ ins.src.lv.k = "Reg"
    THEN Emit2(a, "mov", map_register64(ins.dst.n), map_register64(ins.src.lv.n))
    ELSE IF ins.dst.k = "Reg" /\ ins.src.k = "Literal"
    THEN Emit2(a, "mov", map_register64(ins.dst.n), Some(Imm(as_i64(ins.src.n))))
    ELSE Unimplemented("move operands")

\* Add(p) and Subtract(p): the two differ in the mnemonic only.
LowerAddSub(a, ins, mnemonic) ==
    LET operands == to_two_args(ins.p) IN
    IF ~operands.some THEN Panic("Bad ir")
    ELSE LET x == operands.v[1]
             y == operands.v[2]
         IN IF x.k = "Reg" /\ y.k = "Writeable" /\ y.lv.k = "Reg"
            THEN Emit2(a, mnemonic, map_register64(x.n), map_register64(y.lv.n))
            ELSE IF x.k = "Reg" /\ y.k = "Literal"
            THEN Emit2(a, mnemonic, map_register64(x.n), Some(Imm(as_i32(y.n))))
            ELSE Unimplemented("operands")

\* Multiply(p) by a literal: jmp over the inline data, then imul with ptr(data).
\* The label `data` is created and never given to set_label.
LowerMultiplyLiteral(a, p, x, lit) ==
    LET skip == create_label(a)
        a1 == add_instruction(skip.ass, "jmp", LabelRef(skip.label.id), NoOperand)
        data == create_label(a1)
        a2 == add_instruction(data.ass, "db", Bytes(to_ne_bytes(as_u32(lit))),
                              NoOperand)
        set == set_label(a2, skip.label)
    IN IF set.k = "Err" THEN set
       ELSE IF p.value[1] \in {"Signed", "Unsigned"}
       THEN IF p.value[2] # "B32"
            THEN Unimplemented("Only 32 bit mutiply is supported")
            ELSE Emit2(set.ass, "imul", map_register32(x.n),
                       Some(MemLabel(data.label.id)))
       ELSE Unimplemented("No floating point")

LowerMultiply(a, ins) ==
    LET operands == to_two_args(ins.p) IN
    IF ~operands.some THEN Panic("Bad ir")
    ELSE LET x == operands.v[1]
             y == operands.v[2]
         IN IF x.k = "Reg" /\ y.k = "Writeable" /\ y.lv.k = "Reg"
            THEN IF ins.p.value[1] \in {"Signed", "Unsigned"}
                 THEN Emit2(a, "imul", map_register64(x.n), map_register64(y.lv.n))
                 ELSE Unimplemented("No floating point")
            ELSE IF x.k = "Reg" /\ y.k = "Literal"
            THEN LowerMultiplyLiteral(a, ins.p, x, y.n)
            ELSE Unimplemented("operands")

\* Divide(p): both supported operand shapes have an empty arm.
LowerDivide(a, ins) ==
    LET operands == to_two_args(ins.p) IN
    IF ~operands.some THEN Panic("Bad ir")
    ELSE LET x == operands.v[1]
             y == operands.v[2]
         IN IF x.k = "Reg" /\ y.k = "Writeable" /\ y.lv.k = "Reg" THEN AssOk(a)
            ELSE IF x.k = "Reg" /\ y.k = "Literal" THEN AssOk(a)
            ELSE Unimplemented("operands")

\* LoadParameter, Call, Return, Jump, ConditionalJump: empty arms.
LowerNothing(a, ins) == AssOk(a)

\* The second loop's match on ins.
LowerInstruction(a, ins) ==
    CASE ins.op = "Move" -> LowerMove(a, ins)
      [] ins.op = "Add" -> LowerAddSub(a, ins, "add")
      [] ins.op = "Subtract" -> LowerAddSub(a, ins, "sub")
      [] ins.op = "Multiply" -> LowerMultiply(a, ins)
      [] ins.op = "Divide" -> LowerDivide(a, ins)
      [] OTHER -> LowerNothing(a, ins)

\* PlaceLabel that sets no label.
PlaceLabelUnset(a, lbls, idx) == [k |-> "Ok", ass |-> a, labels |-> lbls]

\* if let Some(label) = labels.get_mut(&i) { ass.set_label(label)?; }
PlaceLabel(a, lbls, idx) ==
    IF idx \in DOMAIN lbls
    THEN LET set == set_label(a, lbls[idx]) IN
         IF set.k = "Err" THEN set
         ELSE [k |-> "Ok", ass |-> set.ass,
               labels |-> [lbls EXCEPT ![idx] = set.label]]
    ELSE [k |-> "Ok", ass |-> a, labels |-> lbls]

EmptyMap == [x \in {} |-> 0]

\* The entry of gen_function(func): CodeAssembler::new(64) and two empty maps.
EnterGenFunction ==
    /\ pc' = "pass1"
    /\ i' = 0
    /\ registers' = EmptyMap
    /\ labels' = EmptyMap
    /\ phys_regs64' = EmptyMap
    /\ phys_regs32' = EmptyMap
    /\ ass' = NewAssembler
    /\ result' = Pending

InitLower ==
    /\ func \in Functions
    /\ pc = "pass1"
    /\ i = 0
    /\ registers = EmptyMap
    /\ labels = EmptyMap
    /\ phys_regs64 = EmptyMap
    /\ phys_regs32 = EmptyMap
    /\ ass = NewAssembler
    /\ result = Pending
    /\ first_result = Pending

IdleLower ==
    /\ func = <<>>
    /\ pc = "idle"
    /\ i = 0
    /\ registers = EmptyMap
    /\ labels = EmptyMap
    /\ phys_regs64 = EmptyMap
    /\ phys_regs32 = EmptyMap
    /\ ass = NewAssembler
    /\ result = Idle
    /\ first_result = Idle

\* gen_function ends here: with a returned Result, or unwinding from a panic.
Finish(res) ==
    /\ pc' = "done"
    /\ result' = res
    /\ UNCHANGED <<func, i, registers, labels, phys_regs64, phys_regs32, ass,
                   first_result>>

\* First loop, an instruction other than ConditionalJump.
Pass1Scan ==
    /\ pc = "pass1"
    /\ i < Len(func)
    /\ func[i + 1].op # "ConditionalJump"
    /\ registers' = Pass1Registers(func[i + 1], registers)
    /\ i' = i + 1
    /\ UNCHANGED <<func, pc, labels, phys_regs64, phys_regs32, ass, result,
                   first_result>>

\* First loop, ConditionalJump with a destination inside the function:
\* labels.entry(dst).or_insert_with(|| ass.create_label()).
Pass1ConditionalJump ==
    /\ pc = "pass1"
    /\ i < Len(func)
    /\ func[i + 1].op = "ConditionalJump"
    /\ \E r \in compute_ins_offset(Len(func), i, func[i + 1].offset) :
        /\ r.k = "Ok"
        /\ registers' = Pass1Registers(func[i + 1], registers)
        /\ IF r.u \in DOMAIN labels
           THEN UNCHANGED <<labels, ass>>
           ELSE /\ labels' = labels @@ (r.u :> create_label(ass).label)
                /\ ass' = create_label(ass).ass
    /\ i' = i + 1
    /\ UNCHANGED <<func, pc, phys_regs64, phys_regs32, result, first_result>>

\* First loop, ConditionalJump with a destination outside the function: the
\* expect inside compute_ins_offset or the unwrap() of its Err(()) panics.
Pass1ConditionalJumpPanic ==
    /\ pc = "pass1"
    /\ i < Len(func)
    /\ func[i + 1].op = "ConditionalJump"
    /\ \E r \in compute_ins_offset(Len(func), i, func[i + 1].offset) :
        /\ r.k # "Ok"
        /\ Finish(IF r.k = "Err"
                  THEN Panic("called Result::unwrap() on an Err value: ()")
                  ELSE r)

\* registers.len() > VOLATILE_PHYSICAL_REGISTER_COUNT: unimplemented!().
BudgetExceeded ==
    /\ pc = "pass1"
    /\ i = Len(func)
    /\ Cardinality(DOMAIN registers) > VOLATILE_PHYSICAL_REGISTER_COUNT
    /\ Finish(Unimplemented("Too many registers used!"))

\* The two tables from virtual to physical registers.
AssignRegisters ==
    /\ pc = "pass1"
    /\ i = Len(func)
    /\ Cardinality(DOMAIN registers) <= VOLATILE_PHYSICAL_REGISTER_COUNT
    /\ \E order \in KeyOrders(registers) :
        /\ phys_regs64' = PhysRegs(order, available_phys_regs64)
        /\ phys_regs32' = PhysRegs(order, available_phys_regs32)
    /\ pc' = "pass2"
    /\ i' = 0
    /\ UNCHANGED <<func, registers, labels, ass, result, first_result>>

\* One iteration of the second loop on an instruction of one of the ops.
Pass2Step(ops) ==
    /\ pc = "pass2"
    /\ i < Len(func)
    /\ func[i + 1].op \in ops
    /\ LET placed == PlaceLabel(ass, labels, i) IN
       IF placed.k = "Err" THEN Finish(placed)
       ELSE LET out == LowerInstruction(placed.ass, func[i + 1]) IN
            IF out.k = "Ok"
            THEN /\ ass' = out.ass
                 /\ labels' = placed.labels
                 /\ i' = i + 1
                 /\ UNCHANGED <<func, pc, registers, phys_regs64, phys_regs32,
                                result, first_result>>
            ELSE Finish(out)

Pass2Move == Pass2Step({"Move"})
Pass2Add == Pass2Step({"Add"})
Pass2Subtract == Pass2Step({"Subtract"})
Pass2Multiply == Pass2Step({"Multiply"})
Pass2Divide == Pass2Step({"Divide"})
Pass2NotLowered ==
    Pass2Step({"LoadParameter", "Call", "Return", "Jump", "ConditionalJump"})

\* Ok(ass)
Pass2Return ==
    /\ pc = "pass2"
    /\ i = Len(func)
    /\ Finish(AssOk(ass))

\* The caller lowers the same IR a second time: a new call of gen_function.
Relower ==
    /\ pc = "done"
    /\ first_result = Pending
    /\ first_result' = result
    /\ EnterGenFunction
    /\ UNCHANGED func

-----------------------------------------------------------------------------
(* The backend dispatch: generator/low/mod.rs, aarch64.rs, x86_64.rs *)

\* The value () of the unit type.
UnitValue == [k |-> "unit"]

\* CompilationUnit { functions, source }
CompilationUnit(functions) == [functions |-> functions, source |-> 0]

\* enum Backend: the ISA tag and the unit it carries.
Aarch64(unit) == [tag |-> "Aarch64", unit |-> unit]
Armv7(unit) == [tag |-> "Armv7", unit |-> unit]
X86_64(unit) == [tag |-> "X86_64", unit |-> unit]

\* The compilation units dispatched: no function, or one function, which
\* is one of the two of the test or has a single instruction.
UnitFunctions == {<<ins>> : ins \in Instructions} \cup {TestBasic, MoveAddMultiply}
CompilationUnits ==
    {CompilationUnit(<<>>)} \cup {CompilationUnit(<<f>>) : f \in UnitFunctions}
Backends ==
    UNION {{Aarch64(unit), Armv7(unit), X86_64(unit)} : unit \in CompilationUnits}

\* A memory operand written as an address expression.
MemExpr(expr) == [k |-> "memexpr", expr |-> expr]

\* a.assemble(ip): a label set after the last instruction is an error.
assemble(a) ==
    IF a.current_label # 0
    THEN [k |-> "Err", msg |-> "Unused label. Did you forget to add an instruction?"]
    ELSE Ok(UnitValue)

\* aarch64::do_codegen(unit): an empty body, which returns ().
aarch64_do_codegen(unit) == UnitValue

\* x86_64::do_codegen(unit): assembles a fixed sequence of instructions that
\* does not depend on unit, drops the bytes and returns Ok(()); `?` returns
\* the first IcedError.
x86_64_do_codegen(unit) ==
    LET a1 == add_instruction(NewAssembler, "push", R64("rcx"), NoOperand)
        a2 == add_instruction(a1, "ret", NoOperand, NoOperand)
        a3 == add_instruction(a2, "ret", Imm(123), NoOperand)
        a4 == add_instruction(a3, "xor", MemExpr("byte ptr [rdx+r14*4+123]"),
                              Imm(16))
        a5 == add_instruction(a4, "rep stosd", NoOperand, NoOperand)
        \* 57072 = 0xDEF0, the low bits of 0x1234_5678_9ABC_DEF0
        a6 == add_instruction(a5, "mov", R64("rax"), Imm(as_i64(57072)))
        loop_lbl1 == create_label(a6)
        after_loop1 == create_label(loop_lbl1.ass)
        a7 == add_instruction(after_loop1.ass, "mov", R32("ecx"), Imm(10))
        set1 == set_label(a7, loop_lbl1.label)
        a8 == add_instruction(set1.ass, "dec", R32("ecx"), NoOperand)
        a9 == add_instruction(a8, "jp", LabelRef(after_loop1.label.id), NoOperand)
        a10 == add_instruction(a9, "jne", LabelRef(set1.label.id), NoOperand)
        set2 == set_label(a10, after_loop1.label)
        skip_data == create_label(set2.ass)
        data == create_label(skip_data.ass)
        a11 == add_instruction(data.ass, "jmp", LabelRef(skip_data.label.id),
                               NoOperand)
        set3 == set_label(a11, data.label)
        a12 == add_instruction(set3.ass, "db", Bytes(<<144, 204, 241, 144>>),
                               NoOperand)
        set4 == set_label(a12, skip_data.label)
        a13 == add_instruction(set4.ass, "lea", R64("rax"),
                               MemLabel(set3.label.id))
    IN IF set1.k = "Err" THEN set1
       ELSE IF set2.k = "Err" THEN set2
       ELSE IF set3.k = "Err" THEN set3
       ELSE IF set4.k = "Err" THEN set4
       ELSE assemble(a13)

\* A caller has a Backend to hand to low::do_codegen.
InitDispatch ==
    /\ backend \in Backends
    /\ dispatch_pc = "called"
    /\ engine = "none"
    /\ engine_result = Pending
    /\ dispatch_result = Pending

IdleDispatch ==
    /\ backend = Idle
    /\ dispatch_pc = "idle"
    /\ engine = "none"
    /\ engine_result = Idle
    /\ dispatch_result = Idle

\* Backend::Aarch64(unit) => aarch64::do_codegen(unit)
DispatchAarch64 ==
    /\ dispatch_pc = "called"
    /\ backend.tag = "Aarch64"
    /\ engine' = "aarch64"
    /\ engine_result' = aarch64_do_codegen(backend.unit)
    /\ dispatch_result' = engine_result'
    /\ dispatch_pc' = "done"
    /\ UNCHANGED backend

\* Backend::Armv7(unit) => unimplemented!(): no engine is called, the
\* process panics.
DispatchArmv7 ==
    /\ dispatch_pc = "called"
    /\ backend.tag = "Armv7"
    /\ dispatch_result' = Panic("not implemented")
    /\ dispatch_pc' = "done"
    /\ UNCHANGED <<backend, engine, engine_result>>

\* Backend::X86_64(unit) => x86_64::do_codegen(unit). The function is
\* declared without a return type: it returns (), whatever the Result the
\* engine has returned.
DispatchX86_64 ==
    /\ dispatch_pc = "called"
    /\ backend.tag = "X86_64"
    /\ engine' = "x86_64"
    /\ engine_result' = x86_64_do_codegen(backend.unit)
    /\ dispatch_result' = UnitValue
    /\ dispatch_pc' = "done"
    /\ UNCHANGED backend

-----------------------------------------------------------------------------
(* The diagnostics of a Session: diagnostic/session.rs, diagnostic/mod.rs *)

\* What DiagnosticBuilder::emit hands to the Handler: the level and message.
\* Span { source, start, end }, from a PToken
Span(token) == [source |-> token.source, start |-> token.start, end |-> token.end]

Diagnostic(level, message, primary, spans) ==
    [level |-> level, message |-> message, primary |-> primary, spans |-> spans]
struct_span_warn(span, message) == Diagnostic("Warning", message, Some(span), <<>>)
struct_span_error(span, message) == Diagnostic("Error", message, Some(span), <<>>)
struct_error(message) == Diagnostic("Error", message, None, <<>>)
\* DiagnosticBuilder::span_label
span_label(diag, span) == [diag EXCEPT !.spans = Append(@, span)]

\* The session of main: warnings are emitted, and the source file is named
\* by the canonical path that load_file gives it.
MainSession == [emit_warnings |-> TRUE, name |-> "canonical"]
\* The session of the tests: warnings are off, and the source file is the
\* one of create_dummy_file, named by the empty path.
dummy_sess == [emit_warnings |-> FALSE, name |-> ""]
Sessions == {MainSession, dummy_sess}

InitSession ==
    /\ emitted = <<>>
    /\ session \in Sessions

IdleSession ==
    /\ emitted = <<>>
    /\ session = Idle

\* TextEmitter::emit_line, TRUE when it returns: the path of the file is
\* made relative to the current directory, and diff_paths gives None for the
\* empty path, on which unwrap panics.
emit_line(sess, span) == sess.name # ""

\* TextEmitter::emit_diagnostic: emit_line for the primary span and for each
\* labelled span.
emit_diagnostic(sess, em, diag) ==
    IF /\ diag.primary.some => emit_line(sess, diag.primary.v)
       /\ \A x \in DOMAIN diag.spans : emit_line(sess, diag.spans[x])
    THEN Ok(Append(em, diag))
    ELSE Panic("called Option::unwrap() on a None value")

\* DiagnosticBuilder::emit, through Handler::warn and Handler::error: a
\* warning goes to the emitter only if flags.emit_warnings, an error always.
emit(sess, em, diag) ==
    IF diag.level = "Warning" /\ ~sess.emit_warnings
    THEN Ok(em)
    ELSE emit_diagnostic(sess, em, diag)

-----------------------------------------------------------------------------
(* lex: lexer/mod.rs *)

\* PToken { kind, source, start, end }
PToken(kind, start, end) ==
    [kind |-> kind, source |-> 0, start |-> start, end |-> end]

\* The kinds of token the logos lexer hands to lex, each with the length of
\* a slice of that kind: x, a newline, //, /*, */, a blank, and a character
\* that no rule matches.
LexKinds ==
    {"Identifier", "Newline", "CommentSingle", "CommentMultiStart",
     "CommentMultiEnd", "Whitespace", "ErrorGeneric"}
SliceLen(kind) ==
    IF kind \in {"CommentSingle", "CommentMultiStart", "CommentMultiEnd"}
    THEN 2 ELSE 1

\* The sources of n tokens, as the sequences of kinds that lexer.next() yields.
Sources(n) == [1..n -> LexKinds]

\* The entry of lex(session, input_file).
InitLex ==
    /\ \E n \in 0..MaxTokens : lexer \in Sources(n)
    /\ lex_pc = "loop"
    /\ lex_pos = 0
    /\ lex_index = 0
    /\ had_error = FALSE
    /\ multi_comment_start = None
    /\ tokens = <<>>
    /\ lex_result = Pending

IdleLex ==
    /\ lexer = <<>>
    /\ lex_pc = "idle"
    /\ lex_pos = 0
    /\ lex_index = 0
    /\ had_error = FALSE
    /\ multi_comment_start = None
    /\ tokens = <<>>
    /\ lex_result = Idle

\* The token built from what lexer.next() and lexer.slice() give.
NextToken ==
    PToken(lexer[lex_pos + 1], lex_index, lex_index + SliceLen(lexer[lex_pos + 1]))

\* The loop is at a token of one of the kinds.
LexStep(kinds) ==
    /\ lex_pc = "loop"
    /\ lex_pos < Len(lexer)
    /\ NextToken.kind \in kinds
    /\ UNCHANGED <<lexer, session>>

\* index += slice.len() ends the iteration, and the loop goes on.
LexNext ==
    /\ lex_pos' = lex_pos + 1
    /\ lex_index' = NextToken.end
    /\ UNCHANGED <<lex_pc, lex_result>>

\* A panic inside emit() ends the call of lex.
LexPanic(panic) ==
    /\ lex_pc' = "done"
    /\ lex_result' = panic
    /\ UNCHANGED <<lex_pos, lex_index, emitted, had_error, multi_comment_start,
                   tokens>>

\* token.kind == CommentMultiStart
LexCommentMultiStart ==
    /\ LexStep({"CommentMultiStart"})
    /\ IF multi_comment_start.some
       THEN LET out == emit(session, emitted,
                            struct_span_warn(Span(multi_comment_start.v),
                                             "/* within block comment"))
            IN IF out.k = "Ok"
               THEN /\ emitted' = out.u
                    /\ LexNext
                    /\ UNCHANGED <<multi_comment_start, had_error, tokens>>
               ELSE LexPanic(out)
       ELSE /\ multi_comment_start' = Some(NextToken)
            /\ LexNext
            /\ UNCHANGED <<emitted, had_error, tokens>>

\* token.kind == CommentMultiEnd
LexCommentMultiEnd ==
    /\ LexStep({"CommentMultiEnd"})
    /\ IF multi_comment_start.some
       THEN /\ multi_comment_start' = None
            /\ LexNext
            /\ UNCHANGED <<emitted, had_error, tokens>>
       ELSE LET out == emit(session, emitted,
                            span_label(struct_error("unexpected token */"),
                                       Span(NextToken)))
            IN IF out.k = "Ok"
               THEN /\ emitted' = out.u
                    /\ had_error' = TRUE
                    /\ LexNext
                    /\ UNCHANGED <<multi_comment_start, tokens>>
               ELSE LexPanic(out)

\* LexPush without its test of multi_comment_start: pushes inside a comment.
LexPushInComment ==
    /\ LexStep(LexKinds \ {"CommentMultiStart", "CommentMultiEnd"})
    /\ IF NextToken.kind = "ErrorGeneric"
       THEN LET out == emit(session, emitted,
                            span_label(struct_error("error lexing token"),
                                       Span(NextToken)))
            IN IF out.k = "Ok"
               THEN /\ emitted' = out.u
                    /\ had_error' = TRUE
                    /\ tokens' = Append(tokens, NextToken)
                    /\ LexNext
                    /\ UNCHANGED multi_comment_start
               ELSE LexPanic(out)
       ELSE /\ tokens' = Append(tokens, NextToken)
            /\ LexNext
            /\ UNCHANGED <<emitted, had_error, multi_comment_start>>

\* Any other token outside a block comment is pushed, an ErrorGeneric too,
\* once its error has been emitted.
LexPush ==
    /\ LexStep(LexKinds \ {"CommentMultiStart", "CommentMultiEnd"})
    /\ ~multi_comment_start.some
    /\ IF NextToken.kind = "ErrorGeneric"
       THEN LET out == emit(session, emitted,
                            span_label(struct_error("error lexing token"),
                                       Span(NextToken)))
            IN IF out.k = "Ok"
               THEN /\ emitted' = out.u
                    /\ had_error' = TRUE
                    /\ tokens' = Append(tokens, NextToken)
                    /\ LexNext
                    /\ UNCHANGED multi_comment_start
               ELSE LexPanic(out)
       ELSE /\ tokens' = Append(tokens, NextToken)
            /\ LexNext
            /\ UNCHANGED <<emitted, had_error, multi_comment_start>>

\* Any other token inside a block comment is skipped.
LexSkipInComment ==
    /\ LexStep(LexKinds \ {"CommentMultiStart", "CommentMultiEnd"})
    /\ multi_comment_start.some
    /\ LexNext
    /\ UNCHANGED <<emitted, had_error, multi_comment_start, tokens>>

\* After the loop: an open block comment is an error; Ok(tokens) or Err(()).
LexReturn ==
    /\ lex_pc = "loop"
    /\ lex_pos = Len(lexer)
    /\ lex_pc' = "done"
    /\ UNCHANGED <<lexer, session, lex_pos, lex_index, multi_comment_start, tokens>>
    /\ IF multi_comment_start.some
       THEN LET out == emit(session, emitted,
                            struct_span_error(Span(multi_comment_start.v),
                                "Unterminated block comment begins here"))
            IN IF out.k = "Ok"
               THEN /\ emitted' = out.u
                    /\ had_error' = TRUE
                    /\ lex_result' = Err
               ELSE /\ lex_result' = out
                    /\ UNCHANGED <<emitted, had_error>>
       ELSE /\ lex_result' = IF ~had_error THEN Ok(tokens) ELSE Err
            /\ UNCHANGED <<emitted, had_error>>

-----------------------------------------------------------------------------
(* phase2: preprocessor/phase2.rs *)

\* The kinds of the tokens handed to phase2, every token one character long.
Phase2Kinds == {"Identifier", "Newline", "CommentSingle", "Whitespace", "Backslash"}
TokenVec(kinds) == [x \in DOMAIN kinds |-> PToken(kinds[x], x - 1, x)]

\* The entry of phase2(tokens, session).
InitPhase2 ==
    /\ \E n \in 0..MaxTokens :
          \E kinds \in [1..n -> Phase2Kinds] : p2_tokens = TokenVec(kinds)
    /\ p2_pc = "loop"
    /\ p2_pos = 0
    /\ new_tokens = <<>>
    /\ backslash = None
    /\ has_error = FALSE
    /\ p2_result = Pending

IdlePhase2 ==
    /\ p2_tokens = <<>>
    /\ p2_pc = "idle"
    /\ p2_pos = 0
    /\ new_tokens = <<>>
    /\ backslash = None
    /\ has_error = FALSE
    /\ p2_result = Idle

\* The loop `for token in tokens`, with or without a pending backslash, is
\* at a token of one of the kinds.
Phase2Step(pending, kinds) ==
    /\ p2_pc = "loop"
    /\ p2_pos < Len(p2_tokens)
    /\ backslash.some = pending
    /\ p2_tokens[p2_pos + 1].kind \in kinds
    /\ UNCHANGED <<p2_tokens, session>>

\* The loop goes on to the next token.
Phase2Next ==
    /\ p2_pos' = p2_pos + 1
    /\ UNCHANGED <<p2_pc, p2_result>>

\* A panic inside emit() ends the call of phase2.
Phase2Panic(panic) ==
    /\ p2_pc' = "done"
    /\ p2_result' = panic
    /\ UNCHANGED <<p2_pos, new_tokens, backslash, has_error, emitted>>

\* Phase2Splice that keeps the Newline.
Phase2SpliceKeepsNewline ==
    /\ Phase2Step(TRUE, {"Newline"})
    /\ backslash' = None
    /\ new_tokens' = Append(new_tokens, p2_tokens[p2_pos + 1])
    /\ Phase2Next
    /\ UNCHANGED <<has_error, emitted>>

\* A Newline after a backslash: both are gone, the lines are spliced.
Phase2Splice ==
    /\ Phase2Step(TRUE, {"Newline"})
    /\ backslash' = None
    /\ Phase2Next
    /\ UNCHANGED <<new_tokens, has_error, emitted>>

\* Whitespace after a backslash: a warning, the backslash stays pending.
Phase2WhitespaceBeforeNewline ==
    /\ Phase2Step(TRUE, {"Whitespace"})
    /\ LET out == emit(session, emitted,
                       struct_span_warn(Span(p2_tokens[p2_pos + 1]),
                                        "whitespace before newline after \\"))
       IN IF out.k = "Ok"
          THEN /\ emitted' = out.u
               /\ Phase2Next
               /\ UNCHANGED <<new_tokens, backslash, has_error>>
          ELSE Phase2Panic(out)

\* Any other token after a backslash: an error, the token is not kept.
Phase2Unexpected ==
    /\ Phase2Step(TRUE, Phase2Kinds \ {"Newline", "Whitespace"})
    /\ LET out == emit(session, emitted,
                       span_label(struct_error("found unexpected token"),
                                  Span(p2_tokens[p2_pos + 1])))
       IN IF out.k = "Ok"
          THEN /\ emitted' = out.u
               /\ has_error' = TRUE
               /\ backslash' = None
               /\ Phase2Next
               /\ UNCHANGED new_tokens
          ELSE Phase2Panic(out)

\* No backslash pending: a CommentSingle is dropped.
Phase2Comment ==
    /\ Phase2Step(FALSE, {"CommentSingle"})
    /\ Phase2Next
    /\ UNCHANGED <<new_tokens, backslash, has_error, emitted>>

\* No backslash pending: a Backslash becomes the pending one.
Phase2Backslash ==
    /\ Phase2Step(FALSE, {"Backslash"})
    /\ backslash' = Some(p2_tokens[p2_pos + 1])
    /\ Phase2Next
    /\ UNCHANGED <<new_tokens, has_error, emitted>>

\* No backslash pending: any other token is kept.
Phase2Push ==
    /\ Phase2Step(FALSE, Phase2Kinds \ {"CommentSingle", "Backslash"})
    /\ new_tokens' = Append(new_tokens, p2_tokens[p2_pos + 1])
    /\ Phase2Next
    /\ UNCHANGED <<backslash, has_error, emitted>>

\* After the loop: a pending backslash is an error; Err(()) or Ok(new_tokens).
Phase2Return ==
    /\ p2_pc = "loop"
    /\ p2_pos = Len(p2_tokens)
    /\ p2_pc' = "done"
    /\ UNCHANGED <<p2_tokens, session, p2_pos, new_tokens, backslash>>
    /\ IF backslash.some
       THEN LET out == emit(session, emitted,
                            span_label(struct_error("unexpected end of file"),
                                       Span(backslash.v)))
            IN IF out.k = "Ok"
               THEN /\ emitted' = out.u
                    /\ has_error' = TRUE
                    /\ p2_result' = Err
               ELSE /\ p2_result' = out
                    /\ UNCHANGED <<emitted, has_error>>
       ELSE /\ p2_result' = IF has_error THEN Err ELSE Ok(new_tokens)
            /\ UNCHANGED <<emitted, has_error>>

-----------------------------------------------------------------------------
codegenVars == <<allocVars, twoArgsVars, offsetVars, lowerVars, dispatchVars>>
frontVars == <<session, emitted, lexVars, phase2Vars>>
vars == <<codegenVars, frontVars>>

\* The front end when no specification of it is running.
IdleFront == IdleSession /\ IdleLex /\ IdlePhase2

notAllocVars == <<twoArgsVars, offsetVars, lowerVars, dispatchVars, frontVars>>

NextAlloc ==
    \/ AllocOk /\ UNCHANGED notAllocVars
    \/ AllocPanic /\ UNCHANGED notAllocVars

AllocatorInit ==
    InitAlloc /\ IdleTwoArgs /\ IdleOffset /\ IdleLower /\ IdleDispatch /\ IdleFront

SpecAlloc == AllocatorInit /\ [][NextAlloc]_vars

NextTwoArgs ==
    ToTwoArgs /\ UNCHANGED <<allocVars, offsetVars, lowerVars, dispatchVars, frontVars>>

TwoArgsInit ==
    IdleAlloc /\ InitTwoArgs /\ IdleOffset /\ IdleLower /\ IdleDispatch /\ IdleFront

SpecTwoArgs == TwoArgsInit /\ [][NextTwoArgs]_vars

NextOffset ==
    ComputeInsOffset
        /\ UNCHANGED <<allocVars, twoArgsVars, lowerVars, dispatchVars, frontVars>>

OffsetInit ==
    IdleAlloc /\ IdleTwoArgs /\ InitOffset /\ IdleLower /\ IdleDispatch /\ IdleFront

SpecOffset == OffsetInit /\ [][NextOffset]_vars

Init ==
    IdleAlloc /\ IdleTwoArgs /\ IdleOffset /\ InitLower /\ IdleDispatch /\ IdleFront

notLowerVars == <<allocVars, twoArgsVars, offsetVars, dispatchVars, frontVars>>

Next ==
    \/ Pass1Scan /\ UNCHANGED notLowerVars
    \/ Pass1ConditionalJump /\ UNCHANGED notLowerVars
    \/ Pass1ConditionalJumpPanic /\ UNCHANGED notLowerVars
    \/ BudgetExceeded /\ UNCHANGED notLowerVars
    \/ AssignRegisters /\ UNCHANGED notLowerVars
    \/ Pass2Move /\ UNCHANGED notLowerVars
    \/ Pass2Add /\ UNCHANGED notLowerVars
    \/ Pass2Subtract /\ UNCHANGED notLowerVars
    \/ Pass2Multiply /\ UNCHANGED notLowerVars
    \/ Pass2Divide /\ UNCHANGED notLowerVars
    \/ Pass2NotLowered /\ UNCHANGED notLowerVars
    \/ Pass2Return /\ UNCHANGED notLowerVars
    \/ Relower /\ UNCHANGED notLowerVars

Spec == Init /\ [][Next]_vars

notDispatchVars == <<allocVars, twoArgsVars, offsetVars, lowerVars, frontVars>>

NextDispatch ==
    \/ DispatchAarch64 /\ UNCHANGED notDispatchVars
    \/ DispatchArmv7 /\ UNCHANGED notDispatchVars
    \/ DispatchX86_64 /\ UNCHANGED notDispatchVars

DispatchInit ==
    IdleAlloc /\ IdleTwoArgs /\ IdleOffset /\ IdleLower /\ InitDispatch /\ IdleFront

SpecDispatch == DispatchInit /\ [][NextDispatch]_vars

\* The code generator when the front end runs.
IdleCodegen ==
    IdleAlloc /\ IdleTwoArgs /\ IdleOffset /\ IdleLower /\ IdleDispatch

NextLex ==
    \/ LexCommentMultiStart /\ UNCHANGED <<codegenVars, phase2Vars>>
    \/ LexCommentMultiEnd /\ UNCHANGED <<codegenVars, phase2Vars>>
    \/ LexPush /\ UNCHANGED <<codegenVars, phase2Vars>>
    \/ LexSkipInComment /\ UNCHANGED <<codegenVars, phase2Vars>>
    \/ LexReturn /\ UNCHANGED <<codegenVars, phase2Vars>>

LexInit == IdleCodegen /\ InitSession /\ InitLex /\ IdlePhase2

SpecLex == LexInit /\ [][NextLex]_vars

NextPhase2 ==
    \/ Phase2Splice /\ UNCHANGED <<codegenVars, lexVars>>
    \/ Phase2WhitespaceBeforeNewline /\ UNCHANGED <<codegenVars, lexVars>>
    \/ Phase2Unexpected /\ UNCHANGED <<codegenVars, lexVars>>
    \/ Phase2Comment /\ UNCHANGED <<codegenVars, lexVars>>
    \/ Phase2Backslash /\ UNCHANGED <<codegenVars, lexVars>>
    \/ Phase2Push /\ UNCHANGED <<codegenVars, lexVars>>
    \/ Phase2Return /\ UNCHANGED <<codegenVars, lexVars>>

Phase2Init == IdleCodegen /\ InitSession /\ IdleLex /\ InitPhase2

SpecPhase2 == Phase2Init /\ [][NextPhase2]_vars

-----------------------------------------------------------------------------
(* Properties of RegisterAllocator, under SpecAlloc *)

\* C1: on a fresh RegisterAllocator the k-th alloc() call, 1 <= k <= 65535,
\* returns Register k: the Registers returned are never zero, strictly
\* increasing in call order and so pairwise distinct.
C1_AllocReturnsCallNumber ==
    alloc_calls >= 1 =>
        /\ alloc_calls <= U16Max
        /\ alloc_ret = alloc_calls
        /\ alloc_ret # 0
        /\ alloc_ret > alloc_prev
        /\ alloc_calls >= 2 => alloc_prev = alloc_calls - 1

\* All 65535 Registers have been handed out.
C1_Witness ==
    alloc_state = "ready" /\ alloc_calls = U16Max /\ alloc_ret = U16Max

\* C2: after 65535 successful alloc() calls the next call fails: it panics,
\* returns no Register and leaves the counter where it was (no wrap to zero).
C2_AllocFailsWhenExhausted ==
    [][(alloc_state = "ready" /\ alloc_calls = U16Max) =>
          /\ alloc_state' = "panicked"
          /\ allocator' = U16Max
          /\ alloc_ret' = alloc_ret
          /\ alloc_calls' = alloc_calls]_vars

\* The call after the 65535th has panicked.
C2_Witness ==
    alloc_state = "panicked" /\ alloc_calls = U16Max /\ allocator = U16Max

-----------------------------------------------------------------------------
(* Properties of to_two_args, under SpecTwoArgs *)

\* C3: to_two_args returns Some((dst, b)) if dst equals a as an LValue,
\* otherwise Some((dst, a)) if dst equals b, otherwise None; a Literal operand
\* never equals dst, so {a: Literal(2), b: Reg(r1), dst: Reg(r1)} gives
\* Some((Reg(r1), Literal(2))).
C3_ToTwoArgs ==
    two_args \notin {Pending, Idle} =>
        /\ two_args =
              IF bop.a = Writeable(bop.dst) THEN Some(<<bop.dst, bop.b>>)
              ELSE IF bop.b = Writeable(bop.dst) THEN Some(<<bop.dst, bop.a>>)
              ELSE None
        /\ (bop.a = Literal(2) /\ bop.b = Writeable(Reg(1)) /\ bop.dst = Reg(1))
              => two_args = Some(<<Reg(1), Literal(2)>>)
        /\ (bop.a.k = "Literal" /\ bop.b.k = "Literal") => two_args = None

\* The example of the claim has been converted.
C3_Witness ==
    /\ bop.a = Literal(2) /\ bop.b = Writeable(Reg(1)) /\ bop.dst = Reg(1)
    /\ two_args = Some(<<Reg(1), Literal(2)>>)

-----------------------------------------------------------------------------
(* Properties of compute_ins_offset, under SpecOffset *)

OffsetDone == co_result \notin {Pending, Idle}
OffsetTarget == co_index + co_offset

\* C4 as claimed: whenever 0 <= index + offset < len the call returns
\* Ok(index + offset), and with offset 0 it succeeds iff index < len.
C4_AsClaimed ==
    OffsetDone =>
        /\ (0 <= OffsetTarget /\ OffsetTarget < co_len) => co_result = Ok(OffsetTarget)
        /\ co_offset = 0 => (co_result.k = "Ok" <=> co_index < co_len)

\* C4, amended: for every index that is at most isize::MAX (every index a
\* Vec can have), whenever 0 <= index + offset < len the call returns
\* Ok(index + offset); with offset 0 it succeeds iff index < len, for every
\* index.
C4_ComputeOffsetInRange ==
    OffsetDone =>
        /\ (co_index <= IsizeMax /\ 0 <= OffsetTarget /\ OffsetTarget < co_len)
              => co_result = Ok(OffsetTarget)
        /\ co_offset = 0 => (co_result.k = "Ok" <=> co_index < co_len)

\* A backward offset has been resolved inside the function.
C4_Witness ==
    co_len = 3 /\ co_index = 2 /\ co_offset = -1 /\ co_result = Ok(1)

\* C5: compute_ins_offset returns the error result Err(()) whenever
\* index + offset is negative and whenever it is >= len.
C5_ComputeOffsetErr ==
    OffsetDone =>
        ((OffsetTarget < 0 \/ OffsetTarget >= co_len) => co_result = Err)

-----------------------------------------------------------------------------
(* Properties of gen_function, under Spec *)

\* The Registers an instruction refers to, in any operand position.
LValueRegisters(lv) == IF lv.k \in {"Reg", "DerefReg"} THEN {lv.n} ELSE {}
RValueRegisters(rv) == IF rv.k = "Writeable" THEN LValueRegisters(rv.lv) ELSE {}
InstructionRegisters(ins) ==
    CASE ins.op = "Move" -> RValueRegisters(ins.src) \cup LValueRegisters(ins.dst)
      [] ins.op = "LoadParameter" -> {ins.dst}
      [] ins.op \in {"Add", "Subtract", "Multiply", "Divide"} ->
            RValueRegisters(ins.p.a) \cup RValueRegisters(ins.p.b)
                \cup LValueRegisters(ins.p.dst)
      [] ins.op = "Call" ->
            IF ins.return_value.some THEN LValueRegisters(ins.return_value.v) ELSE {}
      [] ins.op = "Return" -> RValueRegisters(ins.value)
      [] ins.op = "Jump" -> {}
      [] ins.op = "ConditionalJump" -> LValueRegisters(ins.value)
ReferencedRegisters(f) == UNION {InstructionRegisters(f[x]) : x \in DOMAIN f}

\* The Registers in the order in which the scan of pass 1 first meets them.
AddNew(seq, r) == IF \E x \in DOMAIN seq : seq[x] = r THEN seq ELSE Append(seq, r)
LValueScan(lv, seq) == IF lv.k = "Reg" THEN AddNew(seq, lv.n) ELSE seq
RValueScan(rv, seq) == IF rv.k = "Writeable" THEN LValueScan(rv.lv, seq) ELSE seq
InstructionScan(ins, seq) ==
    CASE ins.op = "Move" -> LValueScan(ins.dst, RValueScan(ins.src, seq))
      [] ins.op \in {"Add", "Subtract", "Multiply", "Divide"} ->
            LValueScan(ins.p.dst, RValueScan(ins.p.b, RValueScan(ins.p.a, seq)))
      [] ins.op = "Call" ->
            IF ins.return_value.some THEN LValueScan(ins.return_value.v, seq) ELSE seq
      [] ins.op = "Return" -> RValueScan(ins.value, seq)
      [] ins.op = "ConditionalJump" -> LValueScan(ins.value, seq)
      [] OTHER -> seq
RECURSIVE FirstSeenOrder(_, _)
FirstSeenOrder(f, n) ==
    IF n = 0 THEN <<>> ELSE InstructionScan(f[n], FirstSeenOrder(f, n - 1))

\* Failures of the kinds the lowering is described to return.
Failure(error) == [k |-> "Err", error |-> error]
IsFailure(res, kind) ==
    res.k = "Err" /\ "error" \in DOMAIN res /\ res.error[1] = kind

\* Both calls of gen_function on the same IR have ended.
LoweredTwice == pc = "done" /\ first_result \notin {Pending, Idle}

\* C6: lowering the same Function twice gives the same output, with the same
\* virtual-to-physical register assignment, for every function that uses
\* one, two or three distinct virtual registers.
C6_LoweringDeterministic ==
    (LoweredTwice /\ Cardinality(ReferencedRegisters(func)) \in 1..3)
        => result = first_result

\* C7: a function that refers to more distinct virtual registers than the
\* budget of 3 fails with the returned failure RegisterBudgetExceeded(needed,
\* 3), and no two distinct virtual registers share a physical register.
C7_RegisterBudgetExceeded ==
    /\ (pc = "done" /\ Cardinality(ReferencedRegisters(func))
                            > VOLATILE_PHYSICAL_REGISTER_COUNT)
          => result = Failure(<<"RegisterBudgetExceeded",
                                Cardinality(ReferencedRegisters(func)),
                                VOLATILE_PHYSICAL_REGISTER_COUNT>>)
    /\ \A x, y \in DOMAIN phys_regs64 : phys_regs64[x] = phys_regs64[y] => x = y

\* C8: the virtual registers get the physical registers in first-seen order:
\* the first one met by the scan gets rax, the second r10, the third r11.
C8_FirstSeenAssignment ==
    pc \in {"pass2", "done"} =>
        LET seen == FirstSeenOrder(func, Len(func)) IN
        \A x \in DOMAIN seen :
            seen[x] \in DOMAIN phys_regs64
                => phys_regs64[seen[x]] = available_phys_regs64[x]

\* The Jump and ConditionalJump instructions whose target is outside the function.
OutOfRangeJumps(f) ==
    {x \in 0..(Len(f) - 1) :
        /\ f[x + 1].op \in {"Jump", "ConditionalJump"}
        /\ (x + f[x + 1].offset < 0 \/ x + f[x + 1].offset >= Len(f))}

\* C9: a function with a Jump or ConditionalJump whose target is outside
\* [0, length) fails with a returned OffsetOutOfRange naming that instruction.
C9_OffsetOutOfRange ==
    (pc = "done" /\ OutOfRangeJumps(func) # {}) =>
        /\ IsFailure(result, "OffsetOutOfRange")
        /\ result.error[2] \in OutOfRangeJumps(func)

\* C10: a Divide, at any position and with any operands, makes the lowering
\* fail with UnimplementedFeature("divide"): the step of pass 2 that meets a
\* Divide ends the lowering with that failure and never goes on to the next
\* instruction.
C10_DivideUnimplemented ==
    [][(pc = "pass2" /\ i < Len(func) /\ func[i + 1].op = "Divide") =>
          /\ pc' = "done"
          /\ result' = Failure(<<"UnimplementedFeature", "divide">>)]_vars

\* The instruction the second loop is about to process.
AtPass2(ops) == pc = "pass2" /\ i < Len(func) /\ func[i + 1].op \in ops

\* C11: for an Add, Subtract, Multiply or Divide whose destination equals
\* neither operand (to_two_args returns None), the step of pass 2 that
\* meets it ends the lowering with a returned UnsupportedOperandShape: it
\* neither emits code nor aborts the process.
C11_UnsupportedOperandShape ==
    [][(/\ AtPass2({"Add", "Subtract", "Multiply", "Divide"})
        /\ ~to_two_args(func[i + 1].p).some) =>
          /\ pc' = "done"
          /\ IsFailure(result', "UnsupportedOperandShape")]_vars

\* C12: a LoadParameter, Call, Return, Jump or in-range ConditionalJump
\* makes the lowering fail with UnimplementedFeature for that instruction:
\* the step of pass 2 that meets one never goes on to return an output in
\* which the instruction is missing.
C12_NotLoweredUnimplemented ==
    [][AtPass2({"LoadParameter", "Call", "Return", "Jump", "ConditionalJump"}) =>
          /\ pc' = "done"
          /\ IsFailure(result', "UnimplementedFeature")]_vars

\* A Multiply of a register by a literal, as to_two_args gives its operands.
MultiplyByLiteral(ins) ==
    /\ ins.op = "Multiply"
    /\ to_two_args(ins.p).some
    /\ to_two_args(ins.p).v[1].k = "Reg"
    /\ to_two_args(ins.p).v[2].k = "Literal"

\* C13: a Multiply of a register by a literal is lowered only when its
\* value is Signed(B32) or Unsigned(B32); with an integer value of another
\* width (B8, B16, B64) the step that meets it ends the lowering with a
\* returned UnsupportedWidth.
C13_MultiplyLiteralWidth ==
    [][(AtPass2({"Multiply"}) /\ MultiplyByLiteral(func[i + 1])) =>
          LET value == func[i + 1].p.value IN
          /\ pc' = "pass2" => value \in {Signed("B32"), Unsigned("B32")}
          /\ (value[1] \in {"Signed", "Unsigned"} /\ value[2] # "B32") =>
                /\ pc' = "done"
                /\ IsFailure(result', "UnsupportedWidth")]_vars

\* C14: a lowering that does not succeed is returned to the caller as an
\* Err that carries no assembler, so nothing emitted before the failure can
\* be seen; the index stays at the failing instruction.
C14_FailureReturnedWithoutOutput ==
    (pc = "done" /\ result \notin {Pending, Idle} /\ result.k # "Ok") =>
        /\ result.k = "Err"
        /\ "ass" \notin DOMAIN result
        /\ i <= Len(func)

\* The instructions of an assembler that compute: all but jumps and data.
Computing(a) ==
    SelectSeq(a.instructions, LAMBDA x : x.mnemonic \notin {"jmp", "db"})

\* The bytes that the label id is bound to: the data declared at the label.
DataAt(a, id) ==
    {a.instructions[x].op0.bytes :
        x \in {y \in DOMAIN a.instructions :
                 /\ a.instructions[y].mnemonic = "db"
                 /\ a.instructions[y].label = id}}

\* C15: the function [Move 1 -> r1, Add 2 + r1 -> r1, Multiply r1 * 2 -> r1]
\* of 32-bit signed values uses one virtual register, lowers successfully,
\* and emits in order a load of 1, an add of 2 and a multiply by the data 2,
\* all three on the one physical register given to r1.
C15_MoveAddMultiply ==
    (pc = "done" /\ func = MoveAddMultiply) =>
        /\ DOMAIN registers = {1}
        /\ result.k = "Ok"
        /\ LET out == Computing(result.ass)
               x == CHOOSE x \in 1..VOLATILE_PHYSICAL_REGISTER_COUNT :
                        phys_regs64[1] = available_phys_regs64[x]
           IN /\ Len(out) = 3
              /\ out[1].mnemonic = "mov"
              /\ out[1].op0 = R64(available_phys_regs64[x])
              /\ out[1].op1 = Imm(1)
              /\ out[2].mnemonic = "add"
              /\ out[2].op0 = R64(available_phys_regs64[x])
              /\ out[2].op1 = Imm(2)
              /\ out[3].mnemonic = "imul"
              /\ out[3].op0 = R32(available_phys_regs32[x])
              /\ out[3].op1.k = "mem"
              /\ DataAt(result.ass, out[3].op1.id) = {to_ne_bytes(2)}

-----------------------------------------------------------------------------
(* Properties of low::do_codegen, under SpecDispatch *)

\* C16: the dispatcher calls the engine of the Backend's ISA and returns to
\* its caller what that engine returned, unchanged; for Armv7, which has no
\* engine, it returns an UnimplementedFeature failure.
C16_DispatchReturnsEngineResult ==
    dispatch_pc = "done" =>
        /\ backend.tag = "Aarch64" =>
              engine = "aarch64" /\ dispatch_result = engine_result
        /\ backend.tag = "X86_64" =>
              engine = "x86_64" /\ dispatch_result = engine_result
        /\ backend.tag = "Armv7" =>
              IsFailure(dispatch_result, "UnimplementedFeature")

\* C17: every call of the aarch64 engine, on every compilation unit, fails
\* with UnimplementedFeature("secondary-isa") and never reports success.
C17_SecondaryIsaUnimplemented ==
    engine = "aarch64" =>
        engine_result = Failure(<<"UnimplementedFeature", "secondary-isa">>)

-----------------------------------------------------------------------------
(* Properties of lex, under SpecLex *)

\* The tokens of the source in source order, block comments included.
RECURSIVE SourceTokens(_)
SourceTokens(n) ==
    IF n = 0 THEN <<>>
    ELSE LET before == SourceTokens(n - 1)
             start == IF n = 1 THEN 0 ELSE before[n - 1].end
         IN Append(before, PToken(lexer[n], start, start + SliceLen(lexer[n])))

\* The x-th token of the source comes after a block-comment start with no
\* block-comment end in between.
InBlockComment(x) ==
    \E s \in 1..(x - 1) :
        /\ lexer[s] = "CommentMultiStart"
        /\ \A e \in (s + 1)..(x - 1) : lexer[e] # "CommentMultiEnd"

IsLineToken(t) == t.kind \in {"CommentSingle", "Newline"}

\* C18: when lex succeeds, the tokens returned contain no block-comment
\* delimiter and no token that lies between a block-comment start and the
\* next block-comment end, and the single-line comments and newlines outside
\* block comments are all there, in source order.
C18_BlockCommentsStripped ==
    (lex_pc = "done" /\ lex_result.k = "Ok") =>
        LET src == SourceTokens(Len(lexer))
            out == lex_result.u
            inside == {src[x] : x \in {y \in DOMAIN src : InBlockComment(y)}}
        IN /\ \A x \in DOMAIN out :
                /\ out[x].kind \notin {"CommentMultiStart", "CommentMultiEnd"}
                /\ out[x] \notin inside
           /\ SelectSeq(out, IsLineToken)
                = SelectSeq(src, LAMBDA t : IsLineToken(t) /\ t \notin inside)

\* lex has succeeded on a source with a newline inside a closed block
\* comment and a single-line comment and a newline outside of it.
C18_Witness ==
    /\ lex_pc = "done"
    /\ lex_result.k = "Ok"
    /\ \E x, y, z \in DOMAIN lexer :
        /\ lexer[x] = "Newline" /\ InBlockComment(x)
        /\ lexer[y] = "CommentSingle" /\ ~InBlockComment(y)
        /\ lexer[z] = "Newline" /\ ~InBlockComment(z)

-----------------------------------------------------------------------------
(* Properties of phase2, under SpecPhase2 *)

\* The x-th token is the Newline that follows a Backslash, or a Whitespace
\* between that Backslash and its Newline.
InSplice(x) ==
    \E b \in 1..(x - 1), n \in x..Len(p2_tokens) :
        /\ p2_tokens[b].kind = "Backslash"
        /\ p2_tokens[n].kind = "Newline"
        /\ \A y \in (b + 1)..(n - 1) : p2_tokens[y].kind = "Whitespace"

\* The tokens that a successful phase2 is to remove; t.end is t's position.
Removed(t) == t.kind \in {"CommentSingle", "Backslash"} \/ InSplice(t.end)

\* C19: when phase2 succeeds, its output is its input, in the same order,
\* without the single-line comments, the Backslashes, the Newline after each
\* Backslash and the Whitespace between the two; every other token is kept.
C19_Phase2Output ==
    (p2_pc = "done" /\ p2_result.k = "Ok") =>
        p2_result.u = SelectSeq(p2_tokens, LAMBDA t : ~Removed(t))

\* phase2 has succeeded on tokens with a Backslash, Whitespace, Newline
\* splice and a single-line comment, and has kept some token.
C19_Witness ==
    /\ p2_pc = "done"
    /\ p2_result.k = "Ok"
    /\ p2_result.u # <<>>
    /\ \E b \in 1..(Len(p2_tokens) - 2) :
        /\ p2_tokens[b].kind = "Backslash"
        /\ p2_tokens[b + 1].kind = "Whitespace"
        /\ p2_tokens[b + 2].kind = "Newline"
    /\ \E c \in DOMAIN p2_tokens : p2_tokens[c].kind = "CommentSingle"

-----------------------------------------------------------------------------
(* Properties of the first loop of gen_function, under Spec *)

\* C20: when the first loop has scanned the whole function, the registers it
\* has recorded are the distinct Registers the function refers to in any
\* operand position (DerefReg operands and the dst of LoadParameter
\* included), so the count compared with the budget is the true count.
C20_Pass1RecordsEveryRegister ==
    ((pc = "pass1" /\ i = Len(func)) \/ pc = "pass2") =>
        /\ DOMAIN registers = ReferencedRegisters(func)
        /\ Cardinality(DOMAIN registers) = Cardinality(ReferencedRegisters(func))

-----------------------------------------------------------------------------
(* Properties of the second loop of gen_function, under Spec *)

\* C21: in pass 2, for every index i that pass 1 recorded as a jump target,
\* the label for i is placed at the current output position, after all the
\* output of instruction i - 1 and before any output of instruction i: the
\* placement succeeds, gives the label the number of instructions emitted so
\* far, and the first instruction emitted from then on carries the label.
C21_LabelPlacedBeforeInstruction ==
    [][(pc = "pass2" /\ i < Len(func) /\ i \in DOMAIN labels) =>
          LET placed == PlaceLabel(ass, labels, i) IN
          /\ placed.k = "Ok"
          /\ placed.labels[i].instruction_index = Len(ass.instructions)
          /\ (pc' = "pass2" /\ Len(ass'.instructions) > Len(ass.instructions)) =>
                ass'.instructions[Len(ass.instructions) + 1].label = labels[i].id
          /\ (pc' = "pass2" /\ Len(ass'.instructions) = Len(ass.instructions)) =>
                ass'.current_label = labels[i].id]_vars

\* The labels that the instructions of an assembler refer to, and the labels
\* bound to one of its instructions.
ReferencedLabels(a) ==
    {a.instructions[x].op0.id :
        x \in {y \in DOMAIN a.instructions : a.instructions[y].op0.k = "label"}}
    \cup {a.instructions[x].op1.id :
        x \in {y \in DOMAIN a.instructions : a.instructions[y].op1.k = "mem"}}
BoundLabels(a) ==
    {a.instructions[x].label : x \in DOMAIN a.instructions} \ {0}

\* C22: the step of pass 2 that lowers a 32-bit Multiply of a register by a
\* literal emits, in this order, a jump to a skip label, a data block with
\* the literal's bit pattern whose start is bound to a data label, the skip
\* label, and a multiply whose memory operand is that data label; every label
\* that an emitted instruction refers to is bound to an output position.
C22_MultiplyLiteralSequence ==
    [][(/\ AtPass2({"Multiply"})
        /\ MultiplyByLiteral(func[i + 1])
        /\ func[i + 1].p.value \in {Signed("B32"), Unsigned("B32")}
        /\ pc' = "pass2") =>
          LET n == Len(ass.instructions)
              new == ass'.instructions
          IN /\ Len(new) = n + 3
             /\ new[n + 1].mnemonic = "jmp"
             /\ new[n + 1].op0.k = "label"
             /\ new[n + 2].mnemonic = "db"
             /\ new[n + 2].op0 = Bytes(to_ne_bytes(as_u32(func[i + 1].p.b.n)))
             /\ new[n + 2].label # 0
             /\ new[n + 3].mnemonic = "imul"
             /\ new[n + 3].label = new[n + 1].op0.id
             /\ new[n + 3].op1 = MemLabel(new[n + 2].label)
             /\ ReferencedLabels(ass') \subseteq BoundLabels(ass')]_vars

\* C23: a Move is lowered exactly when it is register-to-register or
\* literal-to-register; for every other operand shape (a DerefReg or
\* DerefAddr as source or destination) the step of pass 2 that meets it ends
\* the lowering with a returned UnsupportedOperandShape.
C23_MoveOperandShapes ==
    [][AtPass2({"Move"}) =>
          LET ins == func[i + 1]
              supported ==
                  /\ ins.dst.k = "Reg"
                  /\ \/ ins.src.k = "Literal"
                     \/ ins.src.k = "Writeable" /\ ins.src.lv.k = "Reg"
          IN /\ supported => (pc' = "pass2" \/ result'.k = "Err")
             /\ ~supported =>
                   /\ pc' = "done"
                   /\ IsFailure(result', "UnsupportedOperandShape")]_vars

\* C24: lowering leaves the IR as it was, the register table and the label
\* map are new at every call of gen_function, and lowering a function gives
\* the same result whether or not a lowering came before it.
C24_NoStateAcrossLowerings ==
    [][/\ func' = func
       /\ (pc' = "pass1" /\ i' = 0) =>
             /\ registers' = EmptyMap
             /\ labels' = EmptyMap
             /\ phys_regs64' = EmptyMap
             /\ phys_regs32' = EmptyMap
       /\ (pc' = "done" /\ first_result' \notin {Pending, Idle}) =>
             result' = first_result']_vars

\* The 64-bit registers and their 32-bit halves.
WidthPairs == {<<"rax", "eax">>, <<"r10", "r10d">>, <<"r11", "r11d">>}

\* C25: when lowering has passed the budget check, no two distinct virtual
\* registers share a physical register, every recorded register has one, and
\* the two tables agree: a register given rax, r10 or r11 in the 64-bit table
\* has eax, r10d or r11d in the 32-bit table.
C25_RegisterTablesAgree ==
    /\ \A x, y \in DOMAIN phys_regs64 : phys_regs64[x] = phys_regs64[y] => x = y
    /\ \A x, y \in DOMAIN phys_regs32 : phys_regs32[x] = phys_regs32[y] => x = y
    /\ DOMAIN phys_regs32 = DOMAIN phys_regs64
    /\ \A x \in DOMAIN phys_regs64 : <<phys_regs64[x], phys_regs32[x]>> \in WidthPairs
    /\ pc = "pass2" => DOMAIN phys_regs64 = DOMAIN registers

\* Pass 2 runs with three virtual registers mapped.
C25_Witness ==
    /\ pc = "pass2"
    /\ Cardinality(DOMAIN phys_regs64) = VOLATILE_PHYSICAL_REGISTER_COUNT

\* The registers that the second loop looks up for an instruction: the
\* operands of a register/literal Move, Add, Subtract or Multiply.
LookedUp(ins) ==
    IF ins.op = "Move"
    THEN IF ins.dst.k = "Reg" /\ ins.src.k = "Literal" THEN {ins.dst.n}
         ELSE IF ins.dst.k = "Reg" /\ ins.src.k = "Writeable" /\ ins.src.lv.k = "Reg"
         THEN {ins.dst.n, ins.src.lv.n}
         ELSE {}
    ELSE IF ins.op \in {"Add", "Subtract", "Multiply"} /\ ins.p.dst.k = "Reg"
    THEN LET other == IF ins.p.a = Writeable(ins.p.dst) THEN ins.p.b
                      ELSE IF ins.p.b = Writeable(ins.p.dst) THEN ins.p.a
                      ELSE [k |-> "ThreeOperands"]
         IN IF other.k = "ThreeOperands" THEN {}
            ELSE IF other.k = "Literal" THEN {ins.p.dst.n}
            ELSE IF other.lv.k = "Reg" THEN {ins.p.dst.n, other.lv.n}
            ELSE {}
    ELSE {}

\* C26: every register that pass 2 looks up in the physical register tables
\* was recorded by pass 1 and is in both tables, so no lookup of a missing
\* register ever happens.
C26_LookupsAreRecorded ==
    /\ (pc = "pass2" /\ i < Len(func)) =>
          /\ LookedUp(func[i + 1]) \subseteq DOMAIN registers
          /\ LookedUp(func[i + 1]) \subseteq DOMAIN phys_regs64
          /\ LookedUp(func[i + 1]) \subseteq DOMAIN phys_regs32
    /\ result # KeyPanic
    /\ first_result # KeyPanic

\* Pass 2 has emitted an instruction whose two operands are looked-up registers.
C26_Witness ==
    /\ pc = "done"
    /\ result.k = "Ok"
    /\ \E x \in DOMAIN result.ass.instructions :
        /\ result.ass.instructions[x].op0.k = "r64"
        /\ result.ass.instructions[x].op1.k = "r64"
        /\ result.ass.instructions[x].op0 # result.ass.instructions[x].op1

\* The indices that the ConditionalJumps of a function jump to.
ConditionalJumpTargets(f) ==
    {x + f[x + 1].offset :
        x \in {y \in 0..(Len(f) - 1) : f[y + 1].op = "ConditionalJump"}}

\* C27: after pass 1 the label map has one label for each distinct
\* ConditionalJump target, all keys within [0, length) and all labels
\* distinct; pass 2 places the label of index k when it is at k and at no
\* other time, so a successful lowering has placed each label exactly once.
C27_OneLabelPerTarget ==
    /\ ((pc = "pass1" /\ i = Len(func)) \/ pc = "pass2"
            \/ (pc = "done" /\ result.k = "Ok")) =>
          /\ DOMAIN labels = ConditionalJumpTargets(func)
          /\ DOMAIN labels \subseteq 0..(Len(func) - 1)
          /\ \A x, y \in DOMAIN labels : labels[x].id = labels[y].id => x = y
    /\ pc = "pass2" =>
          \A k \in DOMAIN labels : (labels[k].instruction_index # -1) <=> (k < i)
    /\ (pc = "done" /\ result.k = "Ok") =>
          \A k \in DOMAIN labels :
              labels[k].instruction_index \in 0..Len(result.ass.instructions)

\* A lowering has succeeded on a function with two ConditionalJumps to the
\* same index, which share the one label of the map.
C27_Witness ==
    /\ pc = "done"
    /\ result.k = "Ok"
    /\ Cardinality(DOMAIN labels) = 1
    /\ \E x, y \in DOMAIN func :
        /\ x # y
        /\ func[x].op = "ConditionalJump"
        /\ func[y].op = "ConditionalJump"
        /\ x + func[x].offset = y + func[y].offset

\* The value that four bytes hold, the first byte the lowest.
BytesValue(bs) == bs[1] + 256 * bs[2] + 65536 * bs[3] + 16777216 * bs[4]

\* C28: the immediate emitted for an Add or Subtract by a literal L is L
\* reduced to its low DwordBits bits and read as a signed number, the data
\* block emitted for a Multiply by L is four bytes that hold L modulo
\* 2^DwordBits, and both are exactly L when L is below 2^(DwordBits - 1).
C28_LiteralEncodings ==
    [][(/\ AtPass2({"Add", "Subtract", "Multiply"})
        /\ to_two_args(func[i + 1].p).some
        /\ to_two_args(func[i + 1].p).v[1].k = "Reg"
        /\ to_two_args(func[i + 1].p).v[2].k = "Literal"
        /\ pc' = "pass2") =>
          LET L == to_two_args(func[i + 1].p).v[2].n
              n == Len(ass.instructions)
              new == ass'.instructions
          IN IF func[i + 1].op = "Multiply"
             THEN /\ new[n + 2].mnemonic = "db"
                  /\ Len(new[n + 2].op0.bytes) = 4
                  /\ BytesValue(new[n + 2].op0.bytes) = L % (2 ^ DwordBits)
                  /\ L < 2 ^ (DwordBits - 1) => BytesValue(new[n + 2].op0.bytes) = L
             ELSE /\ new[n + 1].op1.k = "imm"
                  /\ new[n + 1].op1.n >= -(2 ^ (DwordBits - 1))
                  /\ new[n + 1].op1.n < 2 ^ (DwordBits - 1)
                  /\ (new[n + 1].op1.n - L) % (2 ^ DwordBits) = 0
                  /\ L < 2 ^ (DwordBits - 1) => new[n + 1].op1.n = L]_vars

\* An Add by a literal with the top bit of the dword set has been emitted as
\* a negative immediate, and a data block of a Multiply by a literal wider
\* than a dword has been emitted.
C28_Witness ==
    /\ pc = "pass2"
    /\ Len(ass.instructions) = 2
    /\ \/ /\ ass.instructions[2].mnemonic = "add"
          /\ ass.instructions[2].op1 = Imm(-(2 ^ (DwordBits - 1)))
       \/ /\ ass.instructions[2].mnemonic = "db"
          /\ ass.instructions[2].op0.bytes[1] = 1

-----------------------------------------------------------------------------
(* Error reporting of lex and of phase2, under SpecLex and SpecPhase2 *)

\* A block comment is open after the first n tokens of the source.
OpenAfter(n) ==
    \E s \in 1..n :
        /\ lexer[s] = "CommentMultiStart"
        /\ \A e \in (s + 1)..n : lexer[e] # "CommentMultiEnd"

\* The source has a block-comment end with no block comment open, a token
\* that no rule matches outside of block comments, or a block comment that
\* is open at the end.
LexErrorInSource ==
    \/ \E x \in DOMAIN lexer :
        /\ lexer[x] \in {"CommentMultiEnd", "ErrorGeneric"}
        /\ ~OpenAfter(x - 1)
    \/ OpenAfter(Len(lexer))

\* C29: lex always comes back, with Err exactly when the source has an
\* error and otherwise with Ok, and only after it has gone through all of
\* the source; a block-comment start inside an open block comment leaves
\* the open comment and the error flag as they are and lexing goes on.
C29_LexErrIffErrorInSource ==
    [][/\ lex_pc' = "done" =>
            /\ lex_result'.k \in {"Ok", "Err"}
            /\ (lex_result' = Err) <=> LexErrorInSource
            /\ lex_pos' = Len(lexer)
       /\ (/\ lex_pc = "loop"
           /\ lex_pos < Len(lexer)
           /\ lexer[lex_pos + 1] = "CommentMultiStart"
           /\ multi_comment_start.some) =>
            /\ lex_pc' = "loop"
            /\ multi_comment_start' = multi_comment_start
            /\ had_error' = had_error
            /\ tokens' = tokens]_vars

\* Some Backslash of the tokens is followed, after Whitespace only, by a
\* token that is not a Newline, or by the end of the tokens. A Backslash
\* that is itself the unexpected token after another one is not pending.
RECURSIVE PendingAfter(_)
PendingAfter(n) ==
    IF n = 0 THEN FALSE
    ELSE LET kind == p2_tokens[n].kind IN
         IF PendingAfter(n - 1) THEN kind = "Whitespace"
         ELSE kind = "Backslash"
Phase2ErrorInTokens ==
    \/ \E x \in DOMAIN p2_tokens :
        /\ PendingAfter(x - 1)
        /\ p2_tokens[x].kind \notin {"Newline", "Whitespace"}
    \/ PendingAfter(Len(p2_tokens))

\* C30: phase2 always comes back, with Err exactly when a Backslash is
\* followed, after Whitespace only, by something other than a Newline or by
\* the end of the tokens; Whitespace after a Backslash changes neither the
\* error flag nor the pending Backslash, and after an unexpected token the
\* pending Backslash is cleared and phase2 goes on through the tokens.
C30_Phase2ErrIffStrayBackslash ==
    [][/\ p2_pc' = "done" =>
            /\ p2_result'.k \in {"Ok", "Err"}
            /\ (p2_result' = Err) <=> Phase2ErrorInTokens
            /\ p2_pos' = Len(p2_tokens)
       /\ (/\ p2_pc = "loop"
           /\ p2_pos < Len(p2_tokens)
           /\ backslash.some
           /\ p2_tokens[p2_pos + 1].kind = "Whitespace") =>
            /\ p2_pc' = "loop"
            /\ backslash' = backslash
            /\ has_error' = has_error
            /\ new_tokens' = new_tokens
       /\ (/\ p2_pc = "loop"
           /\ p2_pos < Len(p2_tokens)
           /\ backslash.some
           /\ p2_tokens[p2_pos + 1].kind \notin {"Newline", "Whitespace"}) =>
            /\ p2_pc' = "loop"
            /\ backslash' = None
            /\ has_error' = TRUE]_vars

=============================================================================
